---- MODULE Spec2Model ----
(***************************************************************************)
(* fix-case-blocks.py: fix_case_block(file_path, line_numbers) and main(). *)
(*                                                                         *)
(* A text line is a record                                                 *)
(*     [ind, toks, trail, nl]                                              *)
(* ind leading spaces, toks the whitespace-separated words of the line,    *)
(* trail trailing spaces, nl whether the line ends in a newline.  A file   *)
(* is the sequence of lines f.readlines() returns: every line but possibly *)
(* the last ends in a newline.  Indices into `lines` are 0-based as in the *)
(* source; At(ls, i) is ls[i].  The regular expressions of the source are  *)
(* rendered on words: the words that occur are those of Alphabet and the   *)
(* "{" and "}" the program writes, and the run of blanks between two words *)
(* is not tracked.  line_numbers is a set: sorted() of a list without      *)
(* repeated numbers.                                                       *)
(***************************************************************************)
EXTENDS Integers, Sequences, FiniteSets, TLC

VARIABLES
    fs,              \* the file system: path -> [exists, content]
    table,           \* affected_files: sequence of [path, line_numbers]
    k,               \* main: position in affected_files (1-based)
    total_changes,   \* main: running total
    pc,              \* "idle" | "loop" | "done" | "crashed" | "exit"
    lines,           \* fix_case_block: the list read from the file
    todo,            \* fix_case_block: sorted(line_numbers) still to visit
    changes,         \* fix_case_block: the list of change records
    modified_lines,  \* fix_case_block: the set of consumed line numbers
    ret,             \* fix_case_block: the value returned by the last call
    wrote,           \* whether the last call opened the file for writing
    called,          \* the paths fix_case_block was called with, in order
    rets,            \* the values those calls returned, in order
    warned           \* paths reported by the "File not found" print

vars == <<fs, table, k, total_changes, pc, lines, todo, changes,
          modified_lines, ret, wrote, called, rets, warned>>

(* ------------------------------ bounds -------------------------------- *)
MaxLen == 4
MaxTargets == 2
MaxFiles == 2

\* a path that does not exist (Path.exists() is false)
NoFile == [exists |-> FALSE, content |-> <<>>]
FileOf(f) == [exists |-> TRUE, content |-> f]

(* ------------------------------- lines -------------------------------- *)
Ln(i, t, s) == [ind |-> i, toks |-> t, trail |-> s, nl |-> TRUE]

LCase0   == Ln(0, <<"case", "a:">>, 0)
LCase2   == Ln(2, <<"case", "b:">>, 1)
LDecl    == Ln(2, <<"const", "x;">>, 0)
LDeclObj == Ln(2, <<"let", "o", "=", "{">>, 0)
LBreak   == Ln(2, <<"break;">>, 0)

Alphabet == {LCase0, LCase2, LDecl, LDeclObj, LBreak}

\* further lines of a switch body: a plain statement, "return" without a
\* terminator and with a trailing blank, a default label, a closing
\* delimiter at the indentation of LCase2, and a one-line case
LStmt      == Ln(2, <<"f(x);">>, 0)
LReturn    == Ln(2, <<"return">>, 1)
LDefault   == Ln(0, <<"default:">>, 0)
LClose2    == Ln(2, <<"}">>, 0)
LCaseBreak == Ln(0, <<"case", "c:", "break;">>, 0)

BlockAlphabet ==
    {LCase0, LCase2, LDecl, LDeclObj, LStmt, LBreak, LReturn, LDefault,
     LClose2, LCaseBreak}

At(ls, i) == ls[i + 1]

\* lines[i] of a Python list: a negative index counts from the end.
PyValid(ls, i) == (0 - Len(ls)) <= i /\ i < Len(ls)
PyAt(ls, i) == IF i >= 0 THEN ls[i + 1] ELSE ls[Len(ls) + i + 1]

Last(s) == s[Len(s)]

\* re.search(r'\b(const|let|var)\b', line)
HasDecl(l) == \E i \in DOMAIN l.toks : l.toks[i] \in {"const", "let", "var"}

\* re.match(r'\s*case\s+', line)
IsCase(l) ==
    /\ Len(l.toks) >= 1
    /\ l.toks[1] = "case"
    /\ (Len(l.toks) >= 2 \/ l.trail > 0 \/ l.nl)

\* '{' in line
HasOpen(l) == \E i \in DOMAIN l.toks : l.toks[i] = "{"

\* re.match(r'\s*(case\s+|default\s*:|})', next_line)
IsBoundary(l) ==
    \/ IsCase(l)
    \/ /\ Len(l.toks) >= 1
       /\ \/ l.toks[1] \in {"default:", "}"}
          \/ Len(l.toks) >= 2 /\ l.toks[1] = "default" /\ l.toks[2] = ":"

\* re.search(r'\b(break|return)\s*;?\s*$', next_line)
IsExit(l) ==
    /\ Len(l.toks) >= 1
    /\ \/ Last(l.toks) \in {"break", "return", "break;", "return;"}
       \/ /\ Len(l.toks) >= 2
          /\ Last(l.toks) = ";"
          /\ l.toks[Len(l.toks) - 1] \in {"break", "return"}

\* len(line) - len(line.lstrip()): lstrip eats all of a blank line
IndentOf(l) ==
    IF l.toks = <<>> THEN l.ind + l.trail + (IF l.nl THEN 1 ELSE 0) ELSE l.ind

\* case_line.rstrip() + ' {\n'
OpenedLine(l) ==
    [ind   |-> IF l.toks = <<>> THEN 1 ELSE l.ind,
     toks  |-> Append(l.toks, "{"),
     trail |-> 0,
     nl    |-> TRUE]

\* mutant: ' ' * indent_level in place of ' ' * (indent_level + 4)
ClosingLine_AnchorIndent(indent_level) ==
    [ind |-> indent_level, toks |-> <<"}">>, trail |-> 0, nl |-> TRUE]

\* ' ' * (indent_level + 4) + '}\n'
ClosingLine(indent_level) ==
    [ind |-> indent_level + 4, toks |-> <<"}">>, trail |-> 0, nl |-> TRUE]

\* lines.insert(end_idx, x)
InsertAt(ls, i, x) == SubSeq(ls, 1, i) \o <<x>> \o SubSeq(ls, i + 1, Len(ls))

\* Two consecutive list elements that the written file holds on one line
Glue(a, b) ==
    [ind   |-> IF a.toks = <<>> /\ b.toks = <<>> THEN a.ind + a.trail + b.ind + b.trail
               ELSE IF a.toks = <<>> THEN a.ind + a.trail + b.ind
               ELSE a.ind,
     toks  |-> a.toks \o b.toks,
     trail |-> IF a.toks = <<>> /\ b.toks = <<>> THEN 0
               ELSE IF b.toks = <<>> THEN a.trail + b.ind + b.trail
               ELSE b.trail,
     nl    |-> b.nl]

\* f.writelines(lines) followed by a later f.readlines(): the list is
\* concatenated, and the text is split again after each newline.
RECURSIVE ReadBack(_)
ReadBack(ls) ==
    IF Len(ls) <= 1 THEN ls
    ELSE IF ls[1].nl THEN <<ls[1]>> \o ReadBack(Tail(ls))
    ELSE ReadBack(<<Glue(ls[1], ls[2])>> \o Tail(Tail(ls)))

(* ----------------------- fix_case_block: helpers ---------------------- *)
\* sorted(line_numbers)
RECURSIVE Sorted(_)
Sorted(S) ==
    IF S = {} THEN <<>>
    ELSE LET m == CHOOSE x \in S : \A y \in S : x <= y
         IN  <<m>> \o Sorted(S \ {m})

\* mutant: while case_idx > 0 in place of while case_idx >= 0
RECURSIVE FindCase_StopsBeforeTop(_, _)
FindCase_StopsBeforeTop(ls, i) ==
    IF i <= 0 THEN 0 - 1
    ELSE IF IsCase(At(ls, i)) THEN i
    ELSE FindCase_StopsBeforeTop(ls, i - 1)

\* the while loop of lines 46-50, entered with case_idx = i
RECURSIVE FindCase(_, _)
FindCase(ls, i) ==
    IF i < 0 THEN i
    ELSE IF IsCase(At(ls, i)) THEN i
    ELSE FindCase(ls, i - 1)

\* mutant: the boundary test without the indentation test of line 69
RECURSIVE FindEnd_AnyIndent(_, _, _)
FindEnd_AnyIndent(ls, e, indent_level) ==
    IF ~(e < Len(ls)) THEN e
    ELSE LET next_line == At(ls, e)
         IN  IF IsBoundary(next_line) THEN e
             ELSE IF IsExit(next_line) THEN e + 1
             ELSE FindEnd_AnyIndent(ls, e + 1, indent_level)

\* the while loop of lines 64-78, entered with end_idx = e
RECURSIVE FindEnd(_, _, _)
FindEnd(ls, e, indent_level) ==
    IF ~(e < Len(ls)) THEN e
    ELSE LET next_line == At(ls, e)
         IN  IF IndentOf(next_line) <= indent_level /\ IsBoundary(next_line)
             THEN e
             ELSE IF IsExit(next_line) THEN e + 1
             ELSE FindEnd(ls, e + 1, indent_level)

\* mutant: only the case line is examined, not the line after it
AlreadyBraced_AnchorOnly(ls, case_idx) == HasOpen(At(ls, case_idx))

\* line 57
AlreadyBraced(ls, case_idx) ==
    \/ HasOpen(At(ls, case_idx))
    \/ case_idx + 1 < Len(ls) /\ HasOpen(At(ls, case_idx + 1))

\* mutant: range(case_idx, end_idx) in place of range(case_idx, end_idx + 2)
Marked_Short(case_idx, end_idx) == {i + 1 : i \in case_idx .. (end_idx - 1)}

\* lines 97-99: for i in range(case_idx, end_idx + 2): modified_lines.add(i + 1)
Marked(case_idx, end_idx) == {i + 1 : i \in case_idx .. (end_idx + 1)}

\* mutant: lines[end_idx] = ... in place of lines.insert(end_idx, ...)
Patched_Overwrite(ls, case_idx, end_idx) ==
    LET opened == [ls EXCEPT ![case_idx + 1] = OpenedLine(ls[case_idx + 1])]
        closing == ClosingLine(IndentOf(At(ls, case_idx)))
    IN  IF end_idx < Len(ls) THEN [opened EXCEPT ![end_idx + 1] = closing]
        ELSE Append(opened, closing)

\* lines 80-89
Patched(ls, case_idx, end_idx) ==
    InsertAt([ls EXCEPT ![case_idx + 1] = OpenedLine(ls[case_idx + 1])],
             end_idx,
             ClosingLine(IndentOf(At(ls, case_idx))))

(* -------------------- fix_case_block: the current target -------------- *)
line_num == Head(todo)
line_idx == line_num - 1
case_idx == FindCase(lines, line_idx - 1)
end_idx  == FindEnd(lines, line_idx + 1, IndentOf(At(lines, case_idx)))

InLoop == pc = "loop" /\ todo # <<>>
\* line 35
Passes35 == ~(line_num > Len(lines) \/ line_num \in modified_lines)

Entry == table[k]

(* ------------------------------ actions ------------------------------- *)
\* lines 22-31: the file exists and is read
Call ==
    /\ pc = "idle"
    /\ k <= Len(table)
    /\ fs[Entry.path].exists
    /\ lines' = fs[Entry.path].content
    /\ changes' = <<>>
    /\ modified_lines' = {}
    /\ todo' = Sorted(Entry.line_numbers)
    /\ wrote' = FALSE
    /\ called' = Append(called, Entry.path)
    /\ pc' = "loop"
    /\ UNCHANGED <<fs, table, k, total_changes, ret, rets, warned>>

\* lines 23-25: the file does not exist
NotFound ==
    /\ pc = "idle"
    /\ k <= Len(table)
    /\ ~fs[Entry.path].exists
    /\ warned' = Append(warned, Entry.path)
    /\ ret' = 0
    /\ wrote' = FALSE
    /\ called' = Append(called, Entry.path)
    /\ rets' = Append(rets, 0)
    /\ pc' = "done"
    /\ UNCHANGED <<fs, table, k, total_changes, lines, todo, changes, modified_lines>>

Skip ==
    /\ todo' = Tail(todo)
    /\ UNCHANGED <<fs, table, k, total_changes, pc, lines, changes,
                   modified_lines, ret, wrote, called, rets, warned>>

\* lines 35-36
SkipRange ==
    /\ InLoop
    /\ ~Passes35
    /\ Skip

\* line 39: lines[line_idx] raises IndexError
IndexError ==
    /\ InLoop
    /\ Passes35
    /\ ~PyValid(lines, line_idx)
    /\ pc' = "crashed"
    /\ UNCHANGED <<fs, table, k, total_changes, lines, todo, changes,
                   modified_lines, ret, wrote, called, rets, warned>>

\* lines 42-43
SkipNoDecl ==
    /\ InLoop
    /\ Passes35
    /\ PyValid(lines, line_idx)
    /\ ~HasDecl(PyAt(lines, line_idx))
    /\ Skip

\* mutant: the keyword test of line 42 left out
Gate42_NoKeywordTest == InLoop /\ Passes35 /\ PyValid(lines, line_idx)

\* lines 35-43 passed: the target is in range, not consumed, and its line
\* holds a declaration keyword
Gate42 == InLoop /\ Passes35 /\ PyValid(lines, line_idx) /\ HasDecl(PyAt(lines, line_idx))

\* lines 52-53
SkipNoCase ==
    /\ Gate42
    /\ case_idx < 0
    /\ Skip

\* lines 57-58
SkipBraced ==
    /\ Gate42
    /\ case_idx >= 0
    /\ AlreadyBraced(lines, case_idx)
    /\ Skip

\* lines 60-99
Patch ==
    /\ Gate42
    /\ case_idx >= 0
    /\ ~AlreadyBraced(lines, case_idx)
    /\ lines' = Patched(lines, case_idx, end_idx)
    /\ changes' = Append(changes, [case_line |-> case_idx + 1,
                                   declaration_line |-> line_num,
                                   end_line |-> end_idx + 1])
    /\ modified_lines' = modified_lines \cup Marked(case_idx, end_idx)
    /\ todo' = Tail(todo)
    /\ UNCHANGED <<fs, table, k, total_changes, pc, ret, wrote, called, rets,
                   warned>>

\* lines 101-112
Return ==
    /\ pc = "loop"
    /\ todo = <<>>
    /\ IF changes # <<>>
       THEN fs' = [fs EXCEPT ![Entry.path] = FileOf(ReadBack(lines))] /\ wrote' = TRUE
       ELSE UNCHANGED <<fs, wrote>>
    /\ ret' = Len(changes)
    /\ rets' = Append(rets, Len(changes))
    /\ pc' = "done"
    /\ UNCHANGED <<table, k, total_changes, lines, todo, changes,
                   modified_lines, called, warned>>

\* fix_case_block is called again on the file it has rewritten, with the
\* same line numbers (the batch is re-run)
Rerun ==
    /\ pc = "done"
    /\ wrote
    /\ pc' = "idle"
    /\ UNCHANGED <<fs, table, k, total_changes, lines, todo, changes,
                   modified_lines, ret, wrote, called, rets, warned>>

\* mutant: total_changes = changes in place of total_changes += changes
Accumulate_Assign ==
    /\ pc = "done"
    /\ total_changes' = ret
    /\ k' = k + 1
    /\ pc' = "idle"
    /\ UNCHANGED <<fs, table, lines, todo, changes, modified_lines, ret,
                   wrote, called, rets, warned>>

\* main, lines 121-123: total_changes += changes, next table entry
Accumulate ==
    /\ pc = "done"
    /\ total_changes' = total_changes + ret
    /\ k' = k + 1
    /\ pc' = "idle"
    /\ UNCHANGED <<fs, table, lines, todo, changes, modified_lines, ret,
                   wrote, called, rets, warned>>

\* main, line 125: the table is exhausted
Exit ==
    /\ pc = "idle"
    /\ k > Len(table)
    /\ pc' = "exit"
    /\ UNCHANGED <<fs, table, k, total_changes, lines, todo, changes,
                   modified_lines, ret, wrote, called, rets, warned>>

(* ------------------------------ inputs -------------------------------- *)
RECURSIVE SeqsUpTo(_, _)
SeqsUpTo(S, n) ==
    IF n = 0 THEN {<<>>}
    ELSE LET shorter == SeqsUpTo(S, n - 1)
         IN  shorter \cup {Append(s, x) : s \in {t \in shorter : Len(t) = n - 1}, x \in S}

\* what readlines() can return: only the last line may lack its newline
Files ==
    LET full == SeqsUpTo(Alphabet, MaxLen)
    IN  full \cup {[f EXCEPT ![Len(f)].nl = FALSE] : f \in full \ {<<>>}}

TargetRange == 0 .. (MaxLen + 1)
TargetSets == {T \in SUBSET TargetRange : Cardinality(T) <= MaxTargets}

Start(tb, files) ==
    /\ table = tb
    /\ fs = files
    /\ k = 1
    /\ total_changes = 0
    /\ pc = "idle"
    /\ lines = <<>>
    /\ todo = <<>>
    /\ changes = <<>>
    /\ modified_lines = {}
    /\ ret = 0
    /\ wrote = FALSE
    /\ called = <<>>
    /\ rets = <<>>
    /\ warned = <<>>

\* one call of fix_case_block on one existing file, any line numbers
Init ==
    \E f \in Files, T \in TargetSets :
        Start(<<[path |-> 1, line_numbers |-> T]>>, <<FileOf(f)>>)

Next ==
    \/ Call
    \/ SkipRange
    \/ IndexError
    \/ SkipNoDecl
    \/ SkipNoCase
    \/ SkipBraced
    \/ Patch
    \/ Return
    \/ Rerun

Spec == Init /\ [][Next]_vars

\* main() over a table of up to MaxFiles paths, each missing or holding one
\* of a few files, with line numbers >= 1 as in affected_files (for which
\* lines[line_idx] of line 39 cannot raise)
MainFiles == {<<LDecl>>, <<LCase0, LDeclObj>>, <<LCase0, LDecl, LCase0, LDecl>>}
MainTargetSets == {T \in SUBSET {1, 2, 5} : Cardinality(T) <= MaxTargets}
PathStates == {NoFile} \cup {FileOf(f) : f \in MainFiles}

InitMain ==
    \E n \in 1 .. MaxFiles :
        \E tb \in [1 .. n -> MainTargetSets], files \in [1 .. n -> PathStates] :
            Start([i \in 1 .. n |-> [path |-> i, line_numbers |-> tb[i]]], files)

NextMain ==
    \/ Call
    \/ NotFound
    \/ SkipRange
    \/ SkipNoDecl
    \/ SkipNoCase
    \/ SkipBraced
    \/ Patch
    \/ Return
    \/ Accumulate
    \/ Exit

SpecMain == InitMain /\ [][NextMain]_vars

\* one call of fix_case_block with one line number, 1 .. MaxLen + 1, on a
\* file of lines of BlockAlphabet, each ending in a newline
BlockFiles == SeqsUpTo(BlockAlphabet, MaxLen)
BlockTargetSets == {{t} : t \in 1 .. (MaxLen + 1)}

InitBlock ==
    \E f \in BlockFiles, T \in BlockTargetSets :
        Start(<<[path |-> 1, line_numbers |-> T]>>, <<FileOf(f)>>)

NextBlock ==
    \/ Call
    \/ SkipRange
    \/ SkipNoDecl
    \/ SkipNoCase
    \/ SkipBraced
    \/ Patch
    \/ Return

SpecBlock == InitBlock /\ [][NextBlock]_vars

(* --------------------------- observations ----------------------------- *)
\* the file as fix_case_block read it: the file is not written before the
\* loop has ended, so during the loop the file system still holds it
Orig == fs[Entry.path].content
Targets == Entry.line_numbers

\* the line has none of const, let, var as a word
NoKeyword(l) == \A i \in DOMAIN l.toks : l.toks[i] \notin {"const", "let", "var"}
\* the line holds an opening delimiter
Opened(l) == \E i \in DOMAIN l.toks : l.toks[i] = "{"

\* the pass over the targets has ended and nothing is written yet
LoopEnded == pc = "loop" /\ todo = <<>>
FirstPass == Len(called) = 1

\* where line n of the file read stands in `lines` after the insertions
\* recorded in chs (each inserted a line at position end_line)
RECURSIVE NewPos(_, _)
NewPos(n, chs) ==
    IF chs = <<>> THEN n
    ELSE NewPos(IF Head(chs).end_line <= n THEN n + 1 ELSE n, Tail(chs))

\* the changes recorded for the case line at position a
ChangesAt(a) == {i \in DOMAIN changes : changes[i].case_line = a}

(* -------------------------------- C1 ---------------------------------- *)
\* C1 (as claimed): a second run of fix_case_block on the output of the
\* first, with the same line numbers, records no change, returns 0 and does
\* not rewrite the file.
C1_SecondRunIsNoOp ==
    Len(called) = 2 =>
        /\ changes = <<>>
        /\ pc = "done" => ret = 0 /\ ~wrote

C3_BeyondEndOfFileIsInert ==
    /\ pc = "loop" =>
           \A i \in DOMAIN changes : changes[i].declaration_line <= Len(Orig)
    /\ pc = "crashed" => line_num <= Len(Orig)

(* -------------------------------- C4 ---------------------------------- *)
\* C4 (as claimed): a line named as a target whose text has no declaration
\* keyword has the same text after the pass, and no change is recorded for
\* that target.
C4_KeywordlessTargetLineUntouched ==
    (LoopEnded /\ FirstPass) =>
        \A t \in Targets :
            (1 <= t /\ t <= Len(Orig) /\ NoKeyword(Orig[t]))
                => /\ lines[NewPos(t, changes)] = Orig[t]
                   /\ \A i \in DOMAIN changes : changes[i].declaration_line # t

\* C4 (amended): processing a target whose line in the in-memory list, at
\* the time the target is processed, has no declaration keyword changes no
\* line, records no change and consumes no line number.
C4_KeywordlessTargetStepIsSkip ==
    [][(/\ InLoop
        /\ 1 <= line_num /\ line_num <= Len(lines)
        /\ NoKeyword(At(lines, line_idx)))
       => (lines' = lines /\ changes' = changes /\ modified_lines' = modified_lines)]_vars

\* a keywordless target under an unbraced case label is next
C4_Witness ==
    /\ InLoop
    /\ Passes35
    /\ 1 <= line_num
    /\ NoKeyword(At(lines, line_idx))
    /\ case_idx >= 0
    /\ ~AlreadyBraced(lines, case_idx)

(* -------------------------------- C5 ---------------------------------- *)
\* C5: a step that patches a target changes `lines` in two places only: the
\* case line at the recorded position case_line gets the opening delimiter
\* appended, and one closing-delimiter line is inserted at the recorded
\* position end_line, below the case line; every other line keeps its text,
\* and the lines keep their order.
C5_PatchIsLocal ==
    [][(pc = "loop" /\ lines' # lines) =>
        LET c == changes'[Len(changes')]
            a == c.case_line
            b == c.end_line
        IN  /\ changes' = Append(changes, c)
            /\ 1 <= a /\ a < c.declaration_line /\ c.declaration_line < b
            /\ b <= Len(lines) + 1
            /\ Len(lines') = Len(lines) + 1
            /\ lines'[a].toks = Append(lines[a].toks, "{")
            /\ lines'[a].ind = lines[a].ind
            /\ lines'[b].toks = <<"}">>
            /\ \A i \in 1 .. Len(lines) :
                   i # a => lines'[IF i < b THEN i ELSE i + 1] = lines[i]
       ]_vars

\* a patch with lines above the case line and below the closing line
C5_Witness ==
    /\ pc = "loop"
    /\ Len(changes) = 1
    /\ changes[1].case_line > 1
    /\ changes[1].end_line < Len(lines)

(* -------------------------------- C6 ---------------------------------- *)
\* C6: a target in range whose nearest preceding case line holds an opening
\* delimiter, or is followed by a line that holds one, is passed over: no
\* line changes and no change is recorded.  Hence a case line is patched only
\* when it holds no opening delimiter, in every pass, and holds exactly one
\* afterwards.
C6_NoDoubleWrap ==
    [][/\ (/\ InLoop
           /\ 1 <= line_num /\ line_num <= Len(lines)
           /\ case_idx >= 0
           /\ Opened(At(lines, case_idx)) \/ Opened(At(lines, case_idx + 1)))
          => (lines' = lines /\ changes' = changes)
       /\ (InLoop /\ changes' # changes)
          => LET a == changes'[Len(changes')].case_line
             IN  /\ ~Opened(lines[a])
                 /\ Cardinality({n \in DOMAIN lines'[a].toks : lines'[a].toks[n] = "{"}) = 1
      ]_vars

\* a declaration under a case line that an earlier pass has patched is next
C6_Witness ==
    /\ Len(called) >= 2
    /\ Gate42
    /\ case_idx >= 0
    /\ Opened(At(lines, case_idx))

\* a declaration under an unpatched case line whose first body line holds
\* the opening delimiter is next
C6_WitnessNextLine ==
    /\ Gate42
    /\ case_idx >= 0
    /\ ~Opened(At(lines, case_idx))
    /\ Opened(At(lines, case_idx + 1))

(* -------------------------------- C7 ---------------------------------- *)
\* C7 (as claimed): within a pass every target number n is tested against
\* the line that stood at position n in the file read.
C7_TargetsAddressTheFileRead ==
    (InLoop /\ Passes35 /\ 1 <= line_num) =>
        /\ line_num <= Len(Orig)
        /\ At(lines, line_idx) = At(Orig, line_idx)

(* -------------------------------- C8 ---------------------------------- *)
\* C8 (as claimed): fix_case_block raises no exception, whatever the file
\* and the line numbers.
C8_NeverRaises == pc # "crashed"

(* -------------------------------- C9 ---------------------------------- *)
\* C9 (as claimed): on return the file has been written if and only if a
\* change was recorded; with no change the file is as it was and 0 is
\* returned; the value returned is the number of changes, and the file
\* written has that many more lines than the file read.
C9_WriteOnlyOnChange ==
    [][(pc = "loop" /\ pc' = "done") =>
        /\ wrote' <=> changes # <<>>
        /\ ~wrote' => (fs' = fs /\ ret' = 0)
        /\ ret' = Len(changes)
        /\ Len(fs'[Entry.path].content) = Len(fs[Entry.path].content) + ret'
      ]_vars

(* -------------------------------- C10 --------------------------------- *)
RECURSIVE Sum(_)
Sum(q) == IF q = <<>> THEN 0 ELSE Head(q) + Sum(Tail(q))

Missing(p) == ~fs[p].exists

\* C10: main calls fix_case_block once per table entry, in table order; a
\* path that does not exist is reported, yields 0 and still does not exist
\* afterwards; the run goes on to the end of the table, and the total
\* printed at the end is the sum of the values the calls returned.
C10_DriverVisitsEachFileOnce ==
    /\ Len(called) <= Len(table)
    /\ \A i \in DOMAIN called : called[i] = table[i].path
    /\ warned = SelectSeq(called, Missing)
    /\ \A i \in DOMAIN rets : Missing(called[i]) => rets[i] = 0
    /\ pc = "exit" =>
           /\ Len(called) = Len(table)
           /\ Len(rets) = Len(table)
           /\ total_changes = Sum(rets)
    /\ pc # "exit" => ENABLED NextMain

\* the run has ended, the first path of the table was missing and files
\* after it were patched
C10_Witness ==
    /\ pc = "exit"
    /\ Len(table) >= 2
    /\ warned # <<>> /\ warned[1] = table[1].path
    /\ total_changes > 0

(* -------------------------------- C11 --------------------------------- *)
\* the line starts, after its leading blanks, with a case label, a default
\* label or a closing delimiter
StartsBoundary(l) == l.toks # <<>> /\ l.toks[1] \in {"case", "default:", "}"}
\* the line ends in break or return, with or without a terminator
EndsInExit(l) ==
    l.toks # <<>> /\ Last(l.toks) \in {"break", "break;", "return", "return;"}
\* the number of blanks the line starts with
Blanks(l) == l.ind

Least(S) == CHOOSE x \in S : \A y \in S : x <= y
Greatest(S) == CHOOSE x \in S : \A y \in S : x >= y

\* the change a step has just recorded
NewChange == changes'[Len(changes')]

\* C11: when a target is patched, let the lines after the target line be
\* scanned downwards for the first line that either (a) has at most the
\* indentation of the case line and starts with a case label, a default
\* label or a closing delimiter, or (b) ends in break or return with or
\* without a terminator.  If that line is of kind (a), the closing line is
\* inserted immediately before it; otherwise immediately after it; if there
\* is no such line, the closing line becomes the last line.  The closing
\* line always stands below the target line.
C11_ExtentOfBlock ==
    [][(InLoop /\ changes' # changes) =>
        LET t == line_num
            a == NewChange.case_line
            b == NewChange.end_line
            IsA(j) == Blanks(lines[j]) <= Blanks(lines[a]) /\ StartsBoundary(lines[j])
            IsB(j) == EndsInExit(lines[j])
            stops == {j \in (t + 1) .. Len(lines) : IsA(j) \/ IsB(j)}
        IN  /\ NewChange.declaration_line = t
            /\ b >= t + 1
            /\ Len(lines') = Len(lines) + 1
            /\ lines'[b].toks = <<"}">>
            /\ \A i \in (t + 1) .. Len(lines) :
                   lines'[IF i < b THEN i ELSE i + 1] = lines[i]
            /\ IF stops = {} THEN b = Len(lines) + 1
               ELSE LET j == Least(stops)
                    IN  IF IsA(j) THEN b = j ELSE b = j + 1
       ]_vars

\* a closing line was inserted before a default label or a closing
\* delimiter, after the scan had passed over at least one line
C11_Witness ==
    /\ pc = "loop"
    /\ Len(changes) = 1
    /\ changes[1].end_line > changes[1].declaration_line + 1
    /\ changes[1].end_line < Len(lines)
    /\ lines[changes[1].end_line + 1].toks[1] \in {"default:", "}"}

(* -------------------------------- C12 --------------------------------- *)
\* the case line l with the opening delimiter appended to its
\* right-stripped text
WithOpening(l) ==
    [ind |-> l.ind, toks |-> Append(l.toks, "{"), trail |-> 0, nl |-> TRUE]
\* n blanks and the closing delimiter
ClosingAt(n) == [ind |-> n, toks |-> <<"}">>, trail |-> 0, nl |-> TRUE]

\* a step that patches rewrites the case line to its right-stripped text
\* followed by the opening delimiter and a newline, inserts one line of
\* (indentation of the case line + 4) blanks and the closing delimiter at
\* the recorded boundary, and keeps every other line
PatchShape ==
    (InLoop /\ changes' # changes) =>
        LET a == NewChange.case_line
            b == NewChange.end_line
        IN  /\ changes' = Append(changes, NewChange)
            /\ a < b
            /\ Len(lines') = Len(lines) + 1
            /\ lines'[a] = WithOpening(lines[a])
            /\ lines'[b] = ClosingAt(Blanks(lines[a]) + 4)
            /\ \A i \in 1 .. Len(lines) :
                   i # a => lines'[IF i < b THEN i ELSE i + 1] = lines[i]

\* a plain statement: no declaration, no label, no closing delimiter, not
\* ending in break or return
PlainStatement(l) ==
    /\ l.toks # <<>>
    /\ NoKeyword(l)
    /\ ~StartsBoundary(l)
    /\ ~EndsInExit(l)

\* the file read holds, from line p on, a case label, a declaration, a
\* statement and "break;", and the declaration is the one target
ScenarioAt(p) ==
    /\ p + 3 <= Len(Orig)
    /\ Orig[p].toks[1] = "case"
    /\ ~NoKeyword(Orig[p + 1])
    /\ PlainStatement(Orig[p + 2])
    /\ Orig[p + 3].toks = <<"break;">>
    /\ Targets = {p + 1}

\* the pass has put the opening delimiter on the case line at p and the
\* closing line immediately after the "break;" line, and nothing else
WrappedAt(p) ==
    /\ changes = <<[case_line |-> p, declaration_line |-> p + 1, end_line |-> p + 4]>>
    /\ lines = InsertAt([Orig EXCEPT ![p] = WithOpening(Orig[p])], p + 3,
                        ClosingAt(Blanks(Orig[p]) + 4))

\* C12 (as claimed): a patch has the shape PatchShape, and for a case label
\* followed by a declaration, a statement and "break;", targeting the
\* declaration puts the opening delimiter on the case line and the closing
\* delimiter immediately after the "break;" line.
C12_ShapeAndScenario ==
    [][/\ PatchShape
       /\ (pc = "loop" /\ pc' = "done") =>
              \A p \in 1 .. Len(Orig) : ScenarioAt(p) => WrappedAt(p)
      ]_vars

\* C12 (amended): a patch has the shape PatchShape, and for a case label
\* followed by a declaration, a statement and "break;", where neither the
\* case line nor the declaration holds an opening delimiter, targeting the
\* declaration puts the opening delimiter on the case line and the closing
\* delimiter immediately after the "break;" line in the list of lines.
C12_ShapeAndUnbracedScenario ==
    [][/\ PatchShape
       /\ (pc = "loop" /\ pc' = "done") =>
              \A p \in 1 .. Len(Orig) :
                  (ScenarioAt(p) /\ ~Opened(Orig[p]) /\ ~Opened(Orig[p + 1]))
                      => WrappedAt(p)
      ]_vars

\* the scenario, with a case line that ends in a blank, has been patched
C12_Witness ==
    /\ LoopEnded
    /\ ScenarioAt(1)
    /\ Orig[1].trail > 0
    /\ Len(changes) = 1
    /\ lines[5] = ClosingAt(6)

(* -------------------------------- C13 --------------------------------- *)
\* the line starts, after its leading blanks, with a case label
StartsWithCase(l) == l.toks # <<>> /\ l.toks[1] = "case"

\* the positions strictly above the current target that hold a case label
CasesAbove == {j \in 1 .. (line_num - 1) : StartsWithCase(lines[j])}

\* C13: for a target that passes the keyword gate: if no line strictly
\* above it starts with a case label, the step changes no line, records no
\* change and consumes no line number; otherwise the only case line the
\* step can rewrite, and the case line of the only change it can record, is
\* the nearest such line above the target, and the step does so unless that
\* line or the line after it holds an opening delimiter.
C13_AnchorIsNearestCaseAbove ==
    [][Gate42 =>
        IF CasesAbove = {}
        THEN /\ lines' = lines
             /\ changes' = changes
             /\ modified_lines' = modified_lines
             /\ todo' = Tail(todo)
        ELSE LET a == Greatest(CasesAbove)
             IN  IF Opened(lines[a]) \/ (a < Len(lines) /\ Opened(lines[a + 1]))
                 THEN lines' = lines /\ changes' = changes
                 ELSE /\ Len(changes') = Len(changes) + 1
                      /\ changes' = Append(changes, NewChange)
                      /\ NewChange.case_line = a
                      /\ NewChange.declaration_line = line_num
                      /\ lines'[a] # lines[a]
                      /\ \A j \in 1 .. line_num : j # a => lines'[j] = lines[j]
      ]_vars

\* a declaration is next that has two case labels above it, the nearer one
\* not directly above it and not delimited
C13_Witness ==
    /\ Gate42
    /\ Cardinality(CasesAbove) >= 2
    /\ Greatest(CasesAbove) < line_num - 1
    /\ ~Opened(lines[Greatest(CasesAbove)])
    /\ ~Opened(lines[Greatest(CasesAbove) + 1])

\* a declaration is next that has no case label above it, in a file that
\* holds one below it
C13_WitnessNoAnchor ==
    /\ Gate42
    /\ line_num >= 1
    /\ CasesAbove = {}
    /\ \E j \in (line_num + 1) .. Len(lines) : StartsWithCase(lines[j])
====
